---- MODULE Spec2Model ----
(***************************************************************************)
(* Cubic regularization (src/src/cubic_reg.py): the optimizer              *)
(* CubicRegularization (outer loop cubic_reg / find_x_new) and the         *)
(* subproblem solver AuxiliaryProblem (solve / compute_s / update_lambda). *)
(*                                                                         *)
(* Numbers.  The program computes in binary floating point.  The model     *)
(* computes in binary fixed point: an integer v stands for the real v/Q,   *)
(* every arithmetic operation rounds its result to the nearest multiple of *)
(* 1/Q, and the machine epsilon np.finfo(float).eps is 1/Q, so that        *)
(* np.sqrt(np.finfo(float).eps) is SqrtEps/Q.                              *)
(*                                                                         *)
(* Vectors have dimension 2 and the Hessians supplied by the caller are    *)
(* diagonal, so a matrix is the pair of its diagonal entries: the Cholesky *)
(* factorization succeeds iff both entries are positive, the eigenvalues   *)
(* are the entries and the eigenvectors are signed unit vectors.           *)
(***************************************************************************)
EXTENDS Integers, Sequences, FiniteSets, TLC

\* ---------------------------------------------------------------- numbers

\* 1/Q is the resolution of the number format and its machine epsilon.
Q == 256

\* np.sqrt(np.finfo(float).eps) in units of 1/Q: sqrt(1/256) = 1/16.
SqrtEps == 16

Abs(a) == IF a < 0 THEN -a ELSE a

Sgn(a) == IF a < 0 THEN -1 ELSE IF a = 0 THEN 0 ELSE 1

Max(a, b) == IF a >= b THEN a ELSE b

Min(a, b) == IF a <= b THEN a ELSE b

\* n/d rounded to the nearest integer (d # 0), halves away from zero.
Rnd(n, d) == Sgn(n) * Sgn(d) * ((2 * Abs(n) + Abs(d)) \div (2 * Abs(d)))

\* Product and quotient of two fixed-point numbers.
Mul(a, b) == Rnd(a * b, Q)

DivF(a, b) == Rnd(a * Q, b)

RECURSIVE ISqrtIn(_, _, _)
ISqrtIn(n, lo, hi) ==
    IF lo >= hi THEN lo
    ELSE LET mid == (lo + hi + 1) \div 2
         IN  IF mid * mid <= n THEN ISqrtIn(n, mid, hi) ELSE ISqrtIn(n, lo, mid - 1)

\* floor(sqrt(n)) for an integer n >= 0.
ISqrt(n) == ISqrtIn(n, 0, Min(n, 46340))

\* The square root of a fixed-point number d >= 0; a large d is rooted at
\* the relative precision it has (sqrt(Q) = 16).
SqrtF(d) == IF d < 4194304 THEN ISqrt(d * Q) ELSE 16 * ISqrt(d)

\* np.linalg.norm of a vector: sqrt(v1^2 + v2^2), in units of 1/Q.
Norm(v) == ISqrt(v[1] * v[1] + v[2] * v[2])

\* np.dot(v, v), in units of 1/Q.
Dot(v, w) == Rnd(v[1] * w[1] + v[2] * w[2], Q)

VAdd(v, w) == <<v[1] + w[1], v[2] + w[2]>>

\* ------------------------------------------------- the caller's functions

\* Python's None, and a supplied value v.
None == <<>>

Some(v) == <<v>>

\* The objectives a caller supplies (f, gradient and hessian of one function):
\*   bowl    f = x1^2 + x2^2              (positive definite Hessian)
\*   saddle  f = -x1^2/2 + x2^2           (indefinite Hessian diag(-1, 2))
\*   plane   f = x1 + x2                  (singular Hessian 0)
\*   well    f = x1^4/4 - x1^2/2 + x2^2   (Hessian diag(3 x1^2 - 1, 2))
Objectives == {"bowl", "saddle", "plane", "well"}

f(o, x) ==
    CASE o = "bowl"   -> Mul(x[1], x[1]) + Mul(x[2], x[2])
      [] o = "saddle" -> Mul(x[2], x[2]) - Rnd(Mul(x[1], x[1]), 2)
      [] o = "plane"  -> x[1] + x[2]
      [] o = "well"   -> Rnd(Mul(Mul(x[1], x[1]), Mul(x[1], x[1])), 4)
                         - Rnd(Mul(x[1], x[1]), 2) + Mul(x[2], x[2])

gradient(o, x) ==
    CASE o = "bowl"   -> <<2 * x[1], 2 * x[2]>>
      [] o = "saddle" -> <<-x[1], 2 * x[2]>>
      [] o = "plane"  -> <<Q, Q>>
      [] o = "well"   -> <<Mul(Mul(x[1], x[1]), x[1]) - x[1], 2 * x[2]>>

\* The diagonal of the Hessian.
hessian(o, x) ==
    CASE o = "bowl"   -> <<2 * Q, 2 * Q>>
      [] o = "saddle" -> <<-Q, 2 * Q>>
      [] o = "plane"  -> <<0, 0>>
      [] o = "well"   -> <<3 * Mul(x[1], x[1]) - Q, 2 * Q>>

\* ------------------------------------------------------ CubicRegularization

\* Python's truth value of an optional number: None and 0 are false.
Truthy(v) == v # None /\ v[1] # 0

\* check_inputs: the exception raised, or "ok".  x0 is a list of length 2 and
\* gradient and hessian are supplied, so the checks of lines 36-39 pass.
check_inputs(a) ==
    IF ~(a.f \/ a.L # None)
      THEN "AttributeError"
    ELSE IF ~(/\ (~Truthy(a.L) \/ a.L[1] > 0)
              /\ (~Truthy(a.L0) \/ a.L0[1] > 0)
              /\ a.kappa_easy > 0
              /\ a.maxiter > 0
              /\ a.conv_tol > 0
              /\ a.epsilon > 0)
      THEN "ValueError"
    ELSE "ok"

\* scipy.linalg.eigh(..., eigvals=(0, 0)): the smallest eigenvalue.
compute_lambda_nplus(o, x) == Max(-Min(hessian(o, x)[1], hessian(o, x)[2]), 0)

check_convergence(o, x, conv_tol) ==
    LET n == Norm(gradient(o, x)) IN Mul(n, n) <= conv_tol

\* The estimate of L0 made by __init__ when neither L0 nor L is given: the
\* 2-norm of the (diagonal) difference of two Hessians over ||(1, 1)||, plus
\* epsilon.
estimate_L0(o, x0, epsilon) ==
    LET h0 == hessian(o, x0)
        h1 == hessian(o, VAdd(x0, <<Q, Q>>))
    IN  DivF(Max(Abs(h0[1] - h1[1]), Abs(h0[2] - h1[2])), Norm(<<Q, Q>>)) + epsilon

\* --------------------------------------------------------- AuxiliaryProblem

\* __init__: lambda_const = (1 + lambda_nplus) * sqrt(machine epsilon).
lambda_const0(lambda_nplus) == Mul(Q + lambda_nplus, SqrtEps)

\* H_lambda(lam) = hessian(x) + lam * I (its diagonal).
H_lambda(o, x, lam) == <<hessian(o, x)[1] + lam, hessian(o, x)[2] + lam>>

\* scipy.linalg.cholesky succeeds iff the matrix is positive definite.  The
\* factor L of a diagonal matrix d is diag(sqrt(d)); the model keeps d for L.
cholesky_ok(d) == d[1] > 0 /\ d[2] > 0

\* scipy.linalg.cho_solve((L, False), b): the solution of (L^T L) s = b.
cho_solve(d, b) == <<DivF(b[1], d[1]), DivF(b[2], d[2])>>

Neg(v) == <<-v[1], -v[2]>>

\* ||w||^2 for w = solve_triangular(L.T, s): sum of s_i^2 / d_i.
norm_w2(s, d) == Rnd(s[1] * s[1], d[1]) + Rnd(s[2] * s[2], d[2])

phi(lambduh, s, M) == DivF(Q, Norm(s)) - DivF(M, 2 * lambduh)

\* ||w||^2 / ||s||^3 + M / (2 lambduh^2); the quotients by a power are taken
\* one factor at a time, which keeps the relative precision a float has.
phi_prime(lambduh, s, d, M) ==
    DivF(DivF(DivF(norm_w2(s, d), Norm(s)), Norm(s)), Norm(s))
    + DivF(DivF(M, 2 * lambduh), lambduh)

\* The quotients of update_lambda are defined (no division by zero).
update_defined(lambduh, s, d, M) ==
    /\ Norm(s) # 0
    /\ lambduh # 0
    /\ phi_prime(lambduh, s, d, M) # 0

update_lambda(lambduh, s, d, M) ==
    lambduh - DivF(phi(lambduh, s, M), phi_prime(lambduh, s, d, M))

converged(s, lambduh, M, kappa_easy) ==
    Abs(Norm(s) - DivF(2 * lambduh, M)) <= kappa_easy

\* np.linalg.eigh of the diagonal matrix d: the eigenvalues in ascending
\* order and, as columns of U, the eigenvectors; sg gives the sign LAPACK
\* happens to give each column.  U is kept as its two rows.  (For equal
\* eigenvalues the unit vectors are taken in their given order.)
eigh_order(d) == IF d[1] <= d[2] THEN <<1, 2>> ELSE <<2, 1>>

eigh_Lambda(d) == <<d[eigh_order(d)[1]], d[eigh_order(d)[2]]>>

eigh_U(d, sg) ==
    [i \in 1..2 |-> [j \in 1..2 |-> IF i = eigh_order(d)[j] THEN sg[j] ELSE 0]]

\* np.linalg.pinv(np.diag(Lambda)): the diagonal of the pseudo-inverse, 1/Q
\* units; a zero eigenvalue is inverted to zero.
pinv_diag(Lam) == [j \in 1..2 |-> IF Lam[j] = 0 THEN 0 ELSE DivF(Q, Lam[j])]

\* U.dot(v) and U.T.dot(v) for the signed permutation matrix U.
MatVec(U, v) == <<U[1][1] * v[1] + U[1][2] * v[2], U[2][1] * v[1] + U[2][2] * v[2]>>

MatTVec(U, v) == <<U[1][1] * v[1] + U[2][1] * v[2], U[1][2] * v[1] + U[2][2] * v[2]>>

\* s_cri = -U.T.dot(pinv(diag(Lambda))).dot(U).dot(gradient(x))
s_cri(U, Lam, g) ==
    LET y == MatVec(U, g)
        z == <<Mul(pinv_diag(Lam)[1], y[1]), Mul(pinv_diag(Lam)[2], y[2])>>
    IN  Neg(MatTVec(U, z))

\* The quadratic [u0.u0, 2 u0.s_cri, s_cri.s_cri - 4 lambda_nplus^2 / M^2];
\* u0 = U[:, 0] has integer entries, the coefficients are in 1/Q units.
quad_coeffs(u0, sc, lambda_nplus, M) ==
    <<(u0[1] * u0[1] + u0[2] * u0[2]) * Q,
      2 * (u0[1] * sc[1] + u0[2] * sc[2]),
      Dot(sc, sc) - DivF(4 * Mul(lambda_nplus, lambda_nplus), Mul(M, M))>>

\* The discriminant b^2 - 4ac of the quadratic.
quad_disc(c) == Mul(c[2], c[2]) - 4 * Mul(c[1], c[3])

\* max(np.roots(c)) when the roots are real: (-b + sqrt(b^2 - 4ac)) / (2a).
max_root(c) == DivF(-c[2] + SqrtF(quad_disc(c)), 2 * c[1])

\* ------------------------------------------------------------------ bounds

\* cubic_reg() is called at most MaxCalls times on one object.
MaxCalls == 2

\* The model follows a call of cubic_reg() for at most MaxOuter iterations.
MaxOuter == 4

\* The adaptive search is followed while the trial weight is <= MaxM.
MaxM == 16

\* A call is followed while the iterate's coordinates are within MaxCoord.
MaxCoord == 8

\* -------------------------------------------------------------- the inputs

X0s == {<<0, 0>>, <<Q, Q>>, <<0, 224>>}

Ls == {None, Some(0), Some(-Q), Some(Q), Some(4 * Q)}

L0s == {None, Some(0), Some(Q \div 2)}

kappa_easys == {0, 8}

maxiters == {0, 2}

conv_tols == {0, 4}

epsilons == {0, 2 * SqrtEps}

\* ------------------------------------------------------------------- state

VARIABLES
    pc,                   \* where the program is
    self,                 \* the CubicRegularization object's fields
    err,                  \* the exception raised, "" if none
    calls,                \* the number of calls of cubic_reg() so far
    k, cr_converged, x_new, x_old, mk, intermediate_points,  \* cubic_reg's locals
    fmk,                  \* find_x_new's mk
    aux,                  \* the AuxiliaryProblem's fields
    lambduh, s, L,        \* solve's locals; L is the matrix the factor is of
    arg, after, fails,    \* compute_s: its argument, its caller, its failed attempts
    ret,                  \* how solve() returned
    m_acc                 \* the trial weight accepted in the previous iteration

vars == <<pc, self, err, calls, k, cr_converged, x_new, x_old, mk,
          intermediate_points, fmk, aux, lambduh, s, L, arg, after, fails,
          ret, m_acc>>

cr_vars == <<k, cr_converged, x_new, x_old, mk, intermediate_points>>

solve_vars == <<lambduh, s, L, arg, after, fails, ret>>

NoRet == [branch |-> "none", real |-> TRUE, xs |-> <<0, 0>>]

Init ==
    /\ pc = "new"
    /\ self \in [objective : Objectives, f : BOOLEAN, x0 : X0s, L : Ls, L0 : L0s,
                 kappa_easy : kappa_easys, maxiter : maxiters,
                 conv_tol : conv_tols, epsilon : epsilons, lambda_nplus : {0}]
    /\ err = ""
    /\ calls = 0
    /\ k = 0
    /\ cr_converged = FALSE
    /\ x_new = <<0, 0>>
    /\ x_old = <<0, 0>>
    /\ mk = None
    /\ intermediate_points = <<>>
    /\ fmk = 0
    /\ aux = [x |-> <<0, 0>>, M |-> 0, lambda_nplus |-> 0, lambda_const |-> 0]
    /\ lambduh = 0
    /\ s = <<0, 0>>
    /\ L = <<0, 0>>
    /\ arg = 0
    /\ after = "case"
    /\ fails = 0
    /\ ret = NoRet
    /\ m_acc = 0

\* ------------------------------------------------------------------ actions

InRange(x) == Abs(x[1]) <= MaxCoord * Q /\ Abs(x[2]) <= MaxCoord * Q

\* CubicRegularization.__init__
Construct ==
    /\ pc = "new"
    /\ IF check_inputs(self) # "ok"
         THEN /\ pc' = "raised"
              /\ err' = check_inputs(self)
              /\ self' = self
         ELSE /\ pc' = "idle"
              /\ err' = err
              /\ self' = [self EXCEPT
                   !.L0 = IF self.L0 = None /\ self.L = None
                            THEN Some(estimate_L0(self.objective, self.x0, self.epsilon))
                            ELSE @,
                   !.lambda_nplus = compute_lambda_nplus(self.objective, self.x0)]
    /\ UNCHANGED <<calls, cr_vars, fmk, aux, solve_vars, m_acc>>

\* cubic_reg(), lines 89-93
cubic_reg ==
    /\ pc = "idle"
    /\ calls < MaxCalls
    /\ calls' = calls + 1
    /\ k' = 0
    /\ cr_converged' = FALSE
    /\ x_new' = self.x0
    /\ mk' = self.L0
    /\ intermediate_points' = <<self.x0>>
    /\ m_acc' = 0
    /\ pc' = "while"
    /\ UNCHANGED <<self, err, x_old, fmk, aux, solve_vars>>

\* The test of the while loop, line 94.
loop_test(kk, maxiter, conv) == kk < maxiter /\ conv = FALSE

\* cubic_reg(), lines 94-96: the loop is entered and find_x_new is called.
cubic_reg_iterate ==
    /\ pc = "while"
    /\ loop_test(k, self.maxiter, cr_converged)
    /\ Len(intermediate_points) <= MaxOuter
    /\ InRange(x_new)
    /\ x_old' = x_new
    /\ fmk' = IF mk = None THEN 0 ELSE mk[1]
    /\ pc' = "find"
    /\ UNCHANGED <<self, err, calls, k, cr_converged, x_new, mk,
                   intermediate_points, aux, solve_vars, m_acc>>

\* cubic_reg(), line 100
cubic_reg_return ==
    /\ pc = "while"
    /\ ~loop_test(k, self.maxiter, cr_converged)
    /\ pc' = "idle"
    /\ UNCHANGED <<self, err, calls, cr_vars, fmk, aux, solve_vars, m_acc>>

AuxiliaryProblem(x, M, lambda_nplus) ==
    [x |-> x, M |-> M, lambda_nplus |-> lambda_nplus,
     lambda_const |-> lambda_const0(lambda_nplus)]

\* find_x_new(), lines 103-105 and 109-112: the subproblem is set up.
find_x_new ==
    /\ pc = "find"
    /\ IF self.L # None
         THEN /\ fmk' = fmk
              /\ aux' = AuxiliaryProblem(x_old, self.L[1], self.lambda_nplus)
         ELSE /\ 2 * fmk <= MaxM * Q
              /\ fmk' = 2 * fmk
              /\ aux' = AuxiliaryProblem(x_old, 2 * fmk, self.lambda_nplus)
    /\ pc' = "solve"
    /\ UNCHANGED <<self, err, calls, cr_vars, solve_vars, m_acc>>

\* solve(), lines 161-165: the first multiplier and the call of compute_s.
solve_start ==
    /\ pc = "solve"
    /\ lambduh' = IF aux.lambda_nplus = 0 THEN 0
                  ELSE aux.lambda_nplus + aux.lambda_const
    /\ arg' = lambduh'
    /\ after' = "case"
    /\ fails' = 0
    /\ ret' = NoRet
    /\ pc' = "compute_s"
    /\ UNCHANGED <<self, err, calls, cr_vars, fmk, aux, s, L, m_acc>>

\* A retry with the multiplier that has just failed.
retry_same_lambda(lambda_nplus, lambda_const, lam) == lam

\* The multiplier compute_s retries with after a failed factorization.
retry_lambda(lambda_nplus, lambda_const, lam) == lambda_nplus + lambda_const

\* compute_s(), lines 138 and 143-144: the factorization succeeds.  (After a
\* retry, line 143 solves again with the factor the retry returned.)
compute_s_ok ==
    /\ pc = "compute_s"
    /\ cholesky_ok(H_lambda(self.objective, aux.x, arg))
    /\ L' = H_lambda(self.objective, aux.x, arg)
    /\ s' = cho_solve(L', Neg(gradient(self.objective, aux.x)))
    /\ pc' = after
    /\ UNCHANGED <<self, err, calls, cr_vars, fmk, aux, lambduh, arg, after,
                   fails, ret, m_acc>>

\* compute_s(), lines 139-142: the factorization fails, lambda_const is
\* doubled and compute_s is called again.
compute_s_retry ==
    /\ pc = "compute_s"
    /\ ~cholesky_ok(H_lambda(self.objective, aux.x, arg))
    /\ aux' = [aux EXCEPT !.lambda_const = 2 * @]
    /\ arg' = retry_lambda(aux.lambda_nplus, aux'.lambda_const, arg)
    /\ fails' = fails + 1
    /\ UNCHANGED <<pc, self, err, calls, cr_vars, fmk, lambduh, s, L, after,
                   ret, m_acc>>

\* The test of line 167 made strict.
within_radius_strict(norm_s, r) == norm_s < r

\* The test of line 167 (<=) between ||s|| and r.
within_radius(norm_s, r) == norm_s <= r

\* solve(), line 166 with M = 0: the division raises.
solve_zero_weight ==
    /\ pc = "case"
    /\ aux.M = 0
    /\ pc' = "raised"
    /\ err' = "ZeroDivisionError"
    /\ UNCHANGED <<self, calls, cr_vars, fmk, aux, solve_vars, m_acc>>

\* solve(), lines 166-169: s is already optimal.
solve_first ==
    /\ pc = "case"
    /\ aux.M # 0
    /\ within_radius(Norm(s), DivF(2 * lambduh, aux.M))
    /\ lambduh = 0 \/ Norm(s) = DivF(2 * lambduh, aux.M)
    /\ ret' = [branch |-> "first", real |-> TRUE, xs |-> VAdd(s, aux.x)]
    /\ pc' = "solved"
    /\ UNCHANGED <<self, err, calls, cr_vars, fmk, aux, lambduh, s, L, arg,
                   after, fails, m_acc>>

\* solve(), lines 170-175: the hard case.  The roots of the quadratic are
\* complex when its discriminant is negative; the step returned is then
\* complex and the model does not follow the run further.
solve_hard ==
    /\ pc = "case"
    /\ aux.M # 0
    /\ within_radius(Norm(s), DivF(2 * lambduh, aux.M))
    /\ ~(lambduh = 0 \/ Norm(s) = DivF(2 * lambduh, aux.M))
    /\ \E sg \in {<<1, 1>>, <<1, -1>>, <<-1, 1>>, <<-1, -1>>} :
         LET d   == H_lambda(self.objective, aux.x, aux.lambda_nplus)
             U   == eigh_U(d, sg)
             u0  == <<U[1][1], U[2][1]>>
             sc  == s_cri(U, eigh_Lambda(d), gradient(self.objective, aux.x))
             c   == quad_coeffs(u0, sc, aux.lambda_nplus, aux.M)
         IN  IF quad_disc(c) < 0
               THEN /\ s' = s
                    /\ ret' = [branch |-> "hard", real |-> FALSE, xs |-> aux.x]
               ELSE /\ s' = <<sc[1] + max_root(c) * u0[1], sc[2] + max_root(c) * u0[2]>>
                    /\ ret' = [branch |-> "hard", real |-> TRUE, xs |-> VAdd(s', aux.x)]
    /\ pc' = "solved"
    /\ UNCHANGED <<self, err, calls, cr_vars, fmk, aux, lambduh, L, arg,
                   after, fails, m_acc>>

\* solve(), lines 176-177: lambda is made positive for the Newton loop.
solve_regular ==
    /\ pc = "case"
    /\ aux.M # 0
    /\ ~within_radius(Norm(s), DivF(2 * lambduh, aux.M))
    /\ InRange(s)
    /\ lambduh' = IF lambduh = 0 THEN lambduh + aux.lambda_const ELSE lambduh
    /\ pc' = "newton"
    /\ UNCHANGED <<self, err, calls, cr_vars, fmk, aux, s, L, arg, after,
                   fails, ret, m_acc>>

\* solve(), lines 178 and 181: the Newton loop ends.
solve_converged ==
    /\ pc = "newton"
    /\ converged(s, lambduh, aux.M, self.kappa_easy)
    /\ ret' = [branch |-> "newton", real |-> TRUE, xs |-> VAdd(s, aux.x)]
    /\ pc' = "solved"
    /\ UNCHANGED <<self, err, calls, cr_vars, fmk, aux, lambduh, s, L, arg,
                   after, fails, m_acc>>

\* solve(), lines 178-180: one Newton step on the secular equation.
solve_newton ==
    /\ pc = "newton"
    /\ ~converged(s, lambduh, aux.M, self.kappa_easy)
    /\ InRange(s)
    /\ update_defined(lambduh, s, L, aux.M)
    /\ lambduh' = update_lambda(lambduh, s, L, aux.M)
    /\ arg' = lambduh'
    /\ after' = "newton"
    /\ fails' = 0
    /\ pc' = "compute_s"
    /\ UNCHANGED <<self, err, calls, cr_vars, fmk, aux, s, L, ret, m_acc>>

\* update_lambda(), lines 149-151, dividing by zero: the loop goes on with
\* inf or nan, which the model does not follow.
solve_nan ==
    /\ pc = "newton"
    /\ ~converged(s, lambduh, aux.M, self.kappa_easy)
    /\ InRange(s)
    /\ ~update_defined(lambduh, s, L, aux.M)
    /\ pc' = "nan"
    /\ UNCHANGED <<self, err, calls, cr_vars, fmk, aux, solve_vars, m_acc>>

\* The test of line 113 with the difference taken the other way round.
decreased_flipped(f_new, f_old) == f_old - f_new <= 0

\* The test of line 113.
decreased(f_new, f_old) == f_new - f_old <= 0

\* Line 114 with min for max.
next_mk_min(m, L0) == Min(Rnd(m, 2), L0)

\* Line 114 halving twice.
next_mk_quarter(m, L0) == Max(Rnd(m, 4), L0)

\* The weight find_x_new hands back after accepting at trial weight m, line 114.
next_mk(m, L0) == Max(Rnd(m, 2), L0)

\* find_x_new(), lines 105-106: the fixed weight.
find_x_new_fixed ==
    /\ pc = "solved"
    /\ ret.real
    /\ InRange(ret.xs)
    /\ self.L # None
    /\ x_new' = ret.xs
    /\ mk' = self.L
    /\ pc' = "post"
    /\ UNCHANGED <<self, err, calls, k, cr_converged, x_old,
                   intermediate_points, fmk, aux, solve_vars, m_acc>>

\* find_x_new(), lines 112-115: the trial point is accepted.
find_x_new_accept ==
    /\ pc = "solved"
    /\ ret.real
    /\ InRange(ret.xs)
    /\ self.L = None
    /\ decreased(f(self.objective, ret.xs), f(self.objective, x_old))
    /\ x_new' = ret.xs
    /\ mk' = Some(next_mk(fmk, self.L0[1]))
    /\ m_acc' = fmk
    /\ pc' = "post"
    /\ UNCHANGED <<self, err, calls, k, cr_converged, x_old,
                   intermediate_points, fmk, aux, solve_vars>>

\* find_x_new(), lines 109-113: the trial point is rejected.
find_x_new_reject ==
    /\ pc = "solved"
    /\ ret.real
    /\ InRange(ret.xs)
    /\ self.L = None
    /\ ~decreased(f(self.objective, ret.xs), f(self.objective, x_old))
    /\ pc' = "find"
    /\ UNCHANGED <<self, err, calls, cr_vars, fmk, aux, solve_vars, m_acc>>

\* cubic_reg(), lines 97-99
cubic_reg_step ==
    /\ pc = "post"
    /\ self' = [self EXCEPT !.lambda_nplus = compute_lambda_nplus(self.objective, x_new)]
    /\ cr_converged' = check_convergence(self.objective, x_new, self.conv_tol)
    /\ intermediate_points' = Append(intermediate_points, x_new)
    /\ pc' = "while"
    /\ UNCHANGED <<err, calls, k, x_new, x_old, mk, fmk, aux, solve_vars, m_acc>>

Next ==
    \/ Construct
    \/ cubic_reg
    \/ cubic_reg_iterate
    \/ cubic_reg_return
    \/ find_x_new
    \/ solve_start
    \/ compute_s_ok
    \/ compute_s_retry
    \/ solve_zero_weight
    \/ solve_first
    \/ solve_hard
    \/ solve_regular
    \/ solve_converged
    \/ solve_newton
    \/ solve_nan
    \/ find_x_new_fixed
    \/ find_x_new_accept
    \/ find_x_new_reject
    \/ cubic_reg_step

Spec == Init /\ [][Next]_vars

\* ------------------------------------------------------------------ claims

Adaptive == self.L = None

\* The Hessian at the subproblem's point is positive definite.
PosDef == cholesky_ok(hessian(self.objective, aux.x))

\* The Newton point x - H^-1 g of the subproblem.
NewtonPoint ==
    VAdd(aux.x, cho_solve(hessian(self.objective, aux.x),
                          Neg(gradient(self.objective, aux.x))))

\* C1 (as claimed): a call of cubic_reg() performs at most maxiter outer
\* iterations: the iterate sequence never holds more than the starting
\* point and maxiter iterates.
C1_AtMostMaxiterIterations ==
    Len(intermediate_points) <= self.maxiter + 1

\* C2 (as claimed): when the Hessian at x is positive definite and
\* lambda_nplus = 0, solve() returns through its first branch and returns
\* the Newton point x - H^-1 g, whatever the gradient.
C2_PosDefReturnsNewtonPoint ==
    (pc = "solved" /\ aux.lambda_nplus = 0 /\ PosDef)
        => (ret.branch = "first" /\ ret.xs = NewtonPoint)

\* C2 (amended): when the Hessian at x is positive definite and
\* lambda_nplus = 0, solve() returns through its first branch exactly when
\* the gradient at x is zero, and the point it then returns is the Newton
\* point x - H^-1 g (which is x); for a nonzero gradient it returns from the
\* Newton loop on the secular equation.
C2_PosDefFirstBranchIffZeroGradient ==
    (pc = "solved" /\ aux.lambda_nplus = 0 /\ PosDef)
        => /\ ret.branch = "first" <=> gradient(self.objective, aux.x) = <<0, 0>>
           /\ ret.branch = "first" => ret.xs = NewtonPoint
           /\ ret.branch # "first" => ret.branch = "newton"

C2_Witness ==
    /\ pc = "solved"
    /\ aux.lambda_nplus = 0
    /\ PosDef
    /\ ret.branch = "first"
    /\ ret.xs = NewtonPoint

\* C3 (as claimed): no optimizer object is constructed from a supplied
\* scalar configuration value that is not strictly positive.
C3_NonPositiveScalarRaises ==
    pc = "idle"
        => /\ self.L # None => self.L[1] > 0
           /\ self.L0 # None => self.L0[1] > 0
           /\ self.kappa_easy > 0
           /\ self.maxiter > 0
           /\ self.conv_tol > 0
           /\ self.epsilon > 0

\* C4 (as claimed): at every subproblem solve the optimizer starts, the
\* lambda_nplus handed to the solver is >= 0 and is
\* max(0, -minEigenvalue(Hessian(x))) for the point x handed to that solve.
C4_LambdaNplusOfThePoint ==
    pc = "solve"
        => /\ aux.lambda_nplus >= 0
           /\ aux.lambda_nplus = compute_lambda_nplus(self.objective, aux.x)

\* C5: in the adaptive regime every point appended to the iterate sequence
\* has an objective value <= that of the point it was computed from, so the
\* objective values along the sequence are non-increasing.
C5_ObjectiveNonIncreasing ==
    (Adaptive /\ pc # "new")
        => /\ pc = "post" => f(self.objective, x_new) <= f(self.objective, x_old)
           /\ \A i \in 1..(Len(intermediate_points) - 1) :
                f(self.objective, intermediate_points[i + 1])
                    <= f(self.objective, intermediate_points[i])

C5_Witness ==
    /\ Adaptive
    /\ pc = "while"
    /\ Len(intermediate_points) >= 3
    /\ f(self.objective, intermediate_points[3]) < f(self.objective, intermediate_points[2])
    /\ f(self.objective, intermediate_points[2]) < f(self.objective, intermediate_points[1])

\* C6: in the adaptive regime the weight carried out of an outer iteration
\* that accepted at trial weight m is max(m/2, L0), and the carried weight
\* is >= L0 at the start of every outer iteration.
C6_CarriedWeight ==
    (Adaptive /\ pc # "new")
        => /\ pc = "post" => /\ 2 * mk[1] >= fmk
                             /\ mk[1] >= self.L0[1]
                             /\ 2 * mk[1] = fmk \/ mk[1] = self.L0[1]
           /\ pc \in {"while", "find"} => mk[1] >= self.L0[1]

C6_Witness ==
    /\ Adaptive
    /\ pc = "post"
    /\ 2 * mk[1] = fmk
    /\ mk[1] > self.L0[1]
    /\ self.L0[1] > 0

\* C7 (as claimed): a step returned through the hard-case branch is real
\* and its norm is 2*lambda_nplus/M to within kappa_easy.
C7_HardCaseStepOnBoundary ==
    (pc = "solved" /\ ret.branch = "hard")
        => /\ ret.real
           /\ Abs(Norm(s) - DivF(2 * aux.lambda_nplus, aux.M)) <= self.kappa_easy

\* C8: when lambda_nplus is max(0, -minEigenvalue(H)), a failed Cholesky
\* attempt of compute_s raises nothing: it doubles lambda_const and retries
\* at lambda_nplus + lambda_const, and that retry factorizes.
C8_RetryFactorizes ==
    [][(/\ pc = "compute_s"
        /\ aux.lambda_nplus = compute_lambda_nplus(self.objective, aux.x)
        /\ ~cholesky_ok(H_lambda(self.objective, aux.x, arg)))
          => /\ pc' = "compute_s"
             /\ err' = ""
             /\ aux'.lambda_const = 2 * aux.lambda_const
             /\ arg' = aux.lambda_nplus + aux'.lambda_const
             /\ cholesky_ok(H_lambda(self.objective, aux.x, arg'))]_vars

C8_Witness ==
    /\ pc = "case"
    /\ aux.M > 0
    /\ aux.lambda_nplus = compute_lambda_nplus(self.objective, aux.x)
    /\ ~cholesky_ok(hessian(self.objective, aux.x))
    /\ fails = 1
    /\ L = H_lambda(self.objective, aux.x, aux.lambda_nplus + aux.lambda_const)

\* C9 (as claimed): after every compute_s call made by solve(), the
\* multiplier lambduh that solve() goes on with is the one the factor L and
\* the step s were computed for: (H + lambduh*I) s = -g.  (Stated for a
\* positive weight M.)
C9_LambdaOfTheFactor ==
    (pc \in {"case", "newton"} /\ aux.M > 0)
        => L = H_lambda(self.objective, aux.x, lambduh)

\* C10: in the adaptive regime the weight carried between the outer
\* iterations of a call never decreases, and the trial weight accepted in an
\* iteration is >= the trial weight accepted in the iteration before.
C10_WeightNeverDecreases ==
    [][(Adaptive /\ pc = "solved" /\ pc' = "post")
          => /\ mk'[1] >= mk[1]
             /\ fmk >= m_acc]_vars

C10_Witness ==
    /\ Adaptive
    /\ pc = "post"
    /\ Len(intermediate_points) >= 2
    /\ self.L0[1] > 0
    /\ m_acc > 2 * self.L0[1]

====
